---- MODULE Spec2Model ----
(***************************************************************************)
(* Model of src/src/App.tsx: the orders-report segmenter (parseOrdersPdf), *)
(* the label annotator (processLabelsPdf) and the orchestrating handler    *)
(* (handleProcess) of the React component App.                             *)
(*                                                                         *)
(* Text is a sequence of one-character strings.  Positions held in fields  *)
(* named index are 0-based, as JavaScript's are; TLA+ sequences are        *)
(* 1-based, so the character at JavaScript offset k is t[k + 1].           *)
(***************************************************************************)
EXTENDS Integers, Sequences, FiniteSets, TLC

\* A string literal as a sequence of characters.
Chars(s) == [i \in 1..Len(s) |-> SubSeq(s, i, i)]

Min(S) == CHOOSE x \in S : \A y \in S : x <= y
Max(S) == CHOOSE x \in S : \A y \in S : x >= y

(***************************************************************************)
(* Character classes of the regular expressions.                           *)
(***************************************************************************)
\* \d
Digits == {"0", "1", "2", "3", "4", "5", "6", "7", "8", "9"}

\* A-Z and a-z
Letters ==
    {"A", "B", "C", "D", "E", "F", "G", "H", "I", "J", "K", "L", "M",
     "N", "O", "P", "Q", "R", "S", "T", "U", "V", "W", "X", "Y", "Z",
     "a", "b", "c", "d", "e", "f", "g", "h", "i", "j", "k", "l", "m",
     "n", "o", "p", "q", "r", "s", "t", "u", "v", "w", "x", "y", "z"}

\* [A-Za-z0-9]
Alnum == Letters \cup Digits

\* [-/]
Separators == {"-", "/"}

\* \s, for the white space an extracted text run can hold (no line
\* terminators, so that "." matches every character of a block).
Whitespace == {" ", "\t"}

(***************************************************************************)
(* String primitives.                                                      *)
(***************************************************************************)
\* The first position at or after i whose character is not in S
\* (Len(t) + 1 when the run reaches the end): where a greedy S+ stops.
RunEnd(t, i, S) ==
    CHOOSE j \in i..(Len(t) + 1) :
        /\ (j = Len(t) + 1 \/ t[j] \notin S)
        /\ \A k \in i..(j - 1) : t[k] \in S

\* The same for the complement class (\S+).
RunEndNot(t, i, S) ==
    CHOOSE j \in i..(Len(t) + 1) :
        /\ (j = Len(t) + 1 \/ t[j] \in S)
        /\ \A k \in i..(j - 1) : t[k] \notin S

\* n digits at positions i .. i+n-1.
DigitsAt(t, i, n) ==
    /\ i + n - 1 <= Len(t)
    /\ \A k \in 0..(n - 1) : t[i + k] \in Digits

\* String.prototype.substring(a, b): 0-based, end exclusive, arguments
\* clamped to [0, length] and swapped when a > b.
Substring(t, a, b) ==
    LET ca == IF a < 0 THEN 0 ELSE IF a > Len(t) THEN Len(t) ELSE a
        cb == IF b < 0 THEN 0 ELSE IF b > Len(t) THEN Len(t) ELSE b
        lo == IF ca <= cb THEN ca ELSE cb
        hi == IF ca <= cb THEN cb ELSE ca
    IN  SubSeq(t, lo + 1, hi)

\* String.prototype.trim()
Trim(t) ==
    LET first == RunEnd(t, 1, Whitespace)
    IN  IF first > Len(t)
        THEN << >>
        ELSE LET last == Max({j \in first..Len(t) : t[j] \notin Whitespace})
             IN  SubSeq(t, first, last)

\* items.map(item => item.str).join(' ')
RECURSIVE Join(_)
Join(items) ==
    IF items = << >> THEN << >>
    ELSE IF Len(items) = 1 THEN items[1]
    ELSE items[1] \o <<" ">> \o Join(Tail(items))

(***************************************************************************)
(* shippingRegex: /(\d{8,12}-\d{4}-\d{1,2})/                               *)
(***************************************************************************)
LeadMin == 8
LeadMax == 12
MidLen == 4
TailMin == 1
TailMax == 2

\* Whether the pattern matches at position i with a leading group of n digits.
ShippingLeadOk(t, i, n) ==
    /\ DigitsAt(t, i, n)
    /\ i + n <= Len(t) /\ t[i + n] = "-"
    /\ DigitsAt(t, i + n + 1, MidLen)
    /\ i + n + 1 + MidLen <= Len(t) /\ t[i + n + 1 + MidLen] = "-"
    /\ DigitsAt(t, i + n + MidLen + 2, TailMin)

\* ShippingMatchLen with a tail group that stops at its first digit.
ShippingMatchLenShortTail(t, i) ==
    LET leads == {n \in LeadMin..LeadMax : ShippingLeadOk(t, i, n)}
    IN  IF leads = {} THEN 0 ELSE Max(leads) + MidLen + 2 + TailMin

\* The length of the match that starts at position i, 0 when there is none.
\* Both counted groups are greedy: the longest lead that lets the rest
\* match, then as many tail digits as there are, up to TailMax.
ShippingMatchLen(t, i) ==
    LET leads == {n \in LeadMin..LeadMax : ShippingLeadOk(t, i, n)}
    IN  IF leads = {} THEN 0
        ELSE LET n == Max(leads)
                 tailStart == i + n + MidLen + 2
                 k == Max({j \in TailMin..TailMax : DigitsAt(t, tailStart, j)})
             IN  n + MidLen + 2 + k

\* The while loop over shippingRegex.exec with the g flag, from lastIndex
\* (0-based): every non-overlapping match, leftmost first.
RECURSIVE ShippingMatches(_, _)
ShippingMatches(t, lastIndex) ==
    LET starts == {i \in (lastIndex + 1)..Len(t) : ShippingMatchLen(t, i) > 0}
    IN  IF starts = {} THEN << >>
        ELSE LET i == Min(starts)
                 n == ShippingMatchLen(t, i)
             IN  <<[number |-> SubSeq(t, i, i + n - 1), index |-> i - 1]>>
                     \o ShippingMatches(t, i - 1 + n)

\* fullText.match(shippingRegex) without the g flag: the first match, or
\* << >> for null.
FirstShippingNumber(t) ==
    LET starts == {i \in 1..Len(t) : ShippingMatchLen(t, i) > 0}
    IN  IF starts = {} THEN << >>
        ELSE LET i == Min(starts)
             IN  SubSeq(t, i, i + ShippingMatchLen(t, i) - 1)

(***************************************************************************)
(* rowEndRegex, written here with its parts spaced out:                   *)
(*   ( .*? ) \s+ ( \S+ ) \s+ ( \d+ ) \s+ ( \d{4} ) \s* ( ?: \d+ \s* )? $   *)
(***************************************************************************)
LabelDigits == 4

\* Where the article token (\S+) starts when group 1 holds the first p
\* characters.
RowArticleStart(t, p) == RunEnd(t, p + 1, Whitespace)

RowArticleEnd(t, p) == RunEndNot(t, RowArticleStart(t, p), Whitespace)

\* Whether everything after group 1 matches from offset p up to the end.
\* Every quantified class is followed by a class disjoint from it, so each
\* greedy run has exactly one length that can succeed: the whole run.
RowRestMatches(t, p) ==
    LET b == RowArticleStart(t, p)
        c == RowArticleEnd(t, p)
        d == RunEnd(t, c, Whitespace)
        e == RunEnd(t, d, Digits)
        f == RunEnd(t, e, Whitespace)
        g == f + LabelDigits
        h == RunEnd(t, g, Whitespace)
        k == RunEnd(t, h, Digits)
        m == RunEnd(t, k, Whitespace)
    IN  /\ b > p + 1
        /\ c > b
        /\ d > c
        /\ e > d
        /\ f > e
        /\ DigitsAt(t, f, LabelDigits)
        /\ \/ h = Len(t) + 1
           \/ k > h /\ m = Len(t) + 1

NoRowEndMatch == [matched |-> FALSE, productName |-> << >>, article |-> << >>]

\* textBlock.match(rowEndRegex): group 1 is lazy, so it is the shortest
\* prefix after which the rest matches up to the end of the block.
RowEndMatch(t) ==
    LET ps == {p \in 0..Len(t) : RowRestMatches(t, p)}
    IN  IF ps = {} THEN NoRowEndMatch
        ELSE LET p == Min(ps)
             IN  [matched |-> TRUE,
                  productName |-> SubSeq(t, 1, p),
                  article |-> SubSeq(t, RowArticleStart(t, p), RowArticleEnd(t, p) - 1)]

(***************************************************************************)
(* articleRegex: /([A-Za-z0-9]+[-/][A-Za-z0-9]+)/                          *)
(***************************************************************************)
\* The length of the match of C+[-/]C+ that starts at position i, 0 when
\* there is none, for the character class C.
TokenLenAt(t, i, C) ==
    IF t[i] \notin C THEN 0
    ELSE LET r == RunEnd(t, i, C)
         IN  IF /\ r + 1 <= Len(t)
                /\ t[r] \in Separators
                /\ t[r + 1] \in C
             THEN RunEnd(t, r + 1, C) - i
             ELSE 0

NoTokenMatch == [matched |-> FALSE, text |-> << >>, index |-> 0]

\* The leftmost match of C+[-/]C+ in t.
TokenMatch(t, C) ==
    LET starts == {i \in 1..Len(t) : TokenLenAt(t, i, C) > 0}
    IN  IF starts = {} THEN NoTokenMatch
        ELSE LET i == Min(starts)
             IN  [matched |-> TRUE,
                  text |-> SubSeq(t, i, i + TokenLenAt(t, i, C) - 1),
                  index |-> i - 1]

\* ArticleMatch with a token class that leaves the digits out.
ArticleLettersOnly(t) == TokenMatch(t, Letters)

\* textBlock.match(articleRegex)
ArticleMatch(t) == TokenMatch(t, Alnum)

(***************************************************************************)
(* parseOrdersPdf                                                          *)
(***************************************************************************)
\* productName.replace(re, '').trim(), re being ^ \s* \d+ \s*
CleanProductName(t) ==
    LET a == RunEnd(t, 1, Whitespace)
        b == RunEnd(t, a, Digits)
    IN  IF b > a
        THEN Trim(SubSeq(t, RunEnd(t, b, Whitespace), Len(t)))
        ELSE Trim(t)

\* The body of the loop over the matches of one page, for one match: the
\* primary grammar, else the fallback, then the clean-up of the name.
ParseBlock(number, textBlock) ==
    LET row == RowEndMatch(textBlock)
        art == ArticleMatch(textBlock)
        article == IF row.matched THEN Trim(row.article)
                   ELSE IF art.matched THEN art.text
                   ELSE << >>
        productName == IF row.matched THEN Trim(row.productName)
                       ELSE IF art.matched
                            THEN Trim(Substring(textBlock, 0, art.index))
                       ELSE textBlock
    IN  [shippingNumber |-> number,
         article |-> article,
         productName |-> CleanProductName(productName)]

\* TextBlock that always runs to the end of the page text.
TextBlockToEnd(fullText, matches, j) ==
    Trim(Substring(fullText,
                   matches[j].index + Len(matches[j].number),
                   Len(fullText)))

\* The text block of match j: from the end of match j to the start of
\* match j + 1, or to the end of the page text, trimmed.
TextBlock(fullText, matches, j) ==
    Trim(Substring(fullText,
                   matches[j].index + Len(matches[j].number),
                   IF j + 1 <= Len(matches) THEN matches[j + 1].index
                                            ELSE Len(fullText)))

\* The records one orders page contributes, in match order.
SegmentPage(items) ==
    LET fullText == Join(items)
        matches == ShippingMatches(fullText, 0)
    IN  [j \in 1..Len(matches) |->
            ParseBlock(matches[j].number, TextBlock(fullText, matches, j))]

\* parseOrdersPdf over the pages of a loaded document, in page order.
RECURSIVE ParseOrdersPdf(_)
ParseOrdersPdf(pages) ==
    IF pages = << >> THEN << >>
    ELSE SegmentPage(Head(pages)) \o ParseOrdersPdf(Tail(pages))

(***************************************************************************)
(* The segmenter on its own: one orders page drawn from three families of  *)
(* page texts, then the per-page body of parseOrdersPdf applied to it.     *)
(***************************************************************************)
VARIABLES
    segCase,      \* the page under test: its family and the parts it is built from
    segRecords,   \* the records the segmenter produced for it
    segDone       \* whether the segmenter has run

segVars == <<segCase, segRecords, segDone>>

\* Digits the generated shipment numbers are built from.
ShipDigits == {"0", "7"}

Repeat(c, n) == [i \in 1..n |-> c]

\* Every shape of shipment number: each length of the lead and of the tail.
ShipDomain ==
    {<<a>> \o Repeat(b, n - 1) \o <<"-">> \o Repeat(c, MidLen) \o <<"-">> \o Repeat(d, k) :
        a \in ShipDigits, b \in ShipDigits, c \in ShipDigits, d \in ShipDigits,
        n \in LeadMin..LeadMax, k \in TailMin..TailMax}

SingleRowTail == Chars(" ProductName F/034 1 1785")

\* The fields of the report rows of the two-row pages.
RowShips == {Chars("0149711785-0110-1"), Chars("77700000-0007-12")}
RowNames == {Chars("Bolt"), Chars("Blue Bolt"), Chars("Bolt 5")}
RowArticles == {Chars("F/034"), Chars("12345")}
RowQuantities == {Chars("1"), Chars("1000")}
RowLabels == {Chars("1785")}

RowDomain ==
    [ship : RowShips, name : RowNames, article : RowArticles,
     qty : RowQuantities, label : RowLabels]

\* A report row as the text of one row of the page.
RowText(r) == Join(<<r.ship, r.name, r.article, r.qty, r.label>>)

\* The words the free-form text blocks are built from.
BlockTokens ==
    {Chars("Bolt"), Chars("12"), Chars("F/034"), Chars("A_1/2"), Chars("1785"), Chars("#")}

MaxBlockTokens == 3

BlockDomain ==
    {Join(ts) : ts \in UNION {[1..n -> BlockTokens] : n \in 1..MaxBlockTokens}}

BlockShip == Chars("0149711785-0110-1")

NoRow == [ship |-> << >>, name |-> << >>, article |-> << >>, qty |-> << >>, label |-> << >>]

SegCases ==
    {[kind |-> "single", ship |-> s, rows |-> <<NoRow, NoRow>>, block |-> << >>] :
        s \in ShipDomain}
    \cup
    {[kind |-> "pair", ship |-> << >>, rows |-> <<r1, r2>>, block |-> << >>] :
        r1 \in RowDomain, r2 \in RowDomain}
    \cup
    {[kind |-> "block", ship |-> BlockShip, rows |-> <<NoRow, NoRow>>, block |-> b] :
        b \in BlockDomain}

\* The text items of the page of a case, joined with a space as line 82 does.
PageItems(c) ==
    CASE c.kind = "single" -> <<c.ship \o SingleRowTail>>
      [] c.kind = "pair"   -> <<RowText(c.rows[1]), RowText(c.rows[2])>>
      [] c.kind = "block"  -> <<c.ship, c.block>>

SegInit ==
    /\ segCase \in SegCases
    /\ segRecords = << >>
    /\ segDone = FALSE

\* The per-page body of parseOrdersPdf (lines 82 to 134) on the page.
Segment ==
    /\ ~segDone
    /\ segRecords' = SegmentPage(PageItems(segCase))
    /\ segDone' = TRUE
    /\ UNCHANGED segCase

(***************************************************************************)
(* The documents the user can pick.  A file is named; its content is what  *)
(* pdf.js and pdf-lib read from it: whether it loads, and its pages.       *)
(***************************************************************************)
NoFile == "none"

S1 == Chars("0149711785-0110-1")
S2 == Chars("77700000-0007-12")
S3 == Chars("999999999999-0000-9")

\* An orders page is the sequence of its text items.
OrdersContent(f) ==
    CASE f = "ordersBad"   -> [loadable |-> FALSE, pages |-> << >>]
      [] f = "ordersEmpty" ->
            [loadable |-> TRUE,
             pages |-> << <<Chars("Orders"), Chars("report 2024")>>,
                          <<Chars("page 2 of 2")>> >>]
      [] f = "ordersOne" ->
            [loadable |-> TRUE,
             pages |-> << <<Chars("1"), S1, Chars("Bolt"), Chars("F/034"),
                            Chars("1"), Chars("1785")>> >>]
      [] f = "ordersDup" ->
            [loadable |-> TRUE,
             pages |-> << <<Chars("1"), S1, Chars("Bolt F/034 1 1785"),
                            Chars("2"), S2, Chars("Nut"),
                            Chars("3"), S1, Chars("Bolt A-1 2 1786")>>,
                          <<Chars("4"), S1, Chars("Bolt B-2 1 1787"),
                            Chars("5"), S2, Chars("Nut N/7 1 1788")>> >>]

OrdersFiles == {"ordersBad", "ordersEmpty", "ordersOne", "ordersDup"}

\* A page's MediaBox entry, as the PDF array [llx lly urx ury].
BoxA == <<0, 0, 100, 150>>
BoxB == <<10, -5, 298, 427>>
BoxC == <<-20, 30, 80, 40>>

\* A labels page: its text items and its MediaBox.
LabelPage(items, box) == [items |-> items, mediaBox |-> box]

LabelsContent(f) ==
    CASE f = "labelsBad" -> [loadable |-> FALSE, pages |-> << >>]
      [] f = "labelsOne" ->
            [loadable |-> TRUE,
             pages |-> <<LabelPage(<<Chars("Ozon"), S1>>, BoxA)>>]
      [] f = "labelsUnknown" ->
            [loadable |-> TRUE,
             pages |-> <<LabelPage(<<Chars("Ozon"), S3>>, BoxA),
                         LabelPage(<<Chars("Ozon")>>, BoxB)>>]
      [] f = "labelsMixed" ->
            [loadable |-> TRUE,
             pages |-> <<LabelPage(<<Chars("Ozon")>>, BoxA),
                         LabelPage(<<Chars("Ozon"), S1>>, BoxB),
                         LabelPage(<<S3, Chars("see"), S1>>, BoxA),
                         LabelPage(<<S2, Chars("FBS")>>, BoxC),
                         LabelPage(<<S1, Chars("copy"), S3>>, BoxC)>>]

LabelsFiles == {"labelsBad", "labelsOne", "labelsUnknown", "labelsMixed"}

(***************************************************************************)
(* The messages of setError and setSuccess, by the condition they report.  *)
(***************************************************************************)
Null == "null"
MsgMissingInput == "MissingInput"            \* line 30
MsgNoRecords == "NoRecordsExtracted"         \* line 44
MsgNoMatches == "NoMatchesFound"             \* line 234
MsgFallback == "ProcessingError"             \* line 67
MsgSuccess == "Success"                      \* line 64
\* The messages of the errors the libraries and fetch throw.
MsgMalformed == "MalformedDocument"
MsgFontUnavailable == "FontUnavailable"

(***************************************************************************)
(* pdf-lib's page, as far as processLabelsPdf uses it.                     *)
(***************************************************************************)
\* fontSize, extraHeight, the inset of the text and the drop of the rectangle
FontSize == 14
ExtraHeight == 25
TextInset == 5
RectDrop == 2

\* "Арт: ", transliterated
ArtPrefix == Chars("Art: ")

\* PDFDocument.load: a page with its MediaBox and the operators drawn on it;
\* items stays with the page to tell which input page it is.
LoadPage(p) == [items |-> p.items, mediaBox |-> p.mediaBox, drawn |-> << >>]

\* pdfPage.getMediaBox(): the array as a rectangle.
GetMediaBox(page) ==
    [x |-> page.mediaBox[1],
     y |-> page.mediaBox[2],
     width |-> page.mediaBox[3] - page.mediaBox[1],
     height |-> page.mediaBox[4] - page.mediaBox[2]]

\* pdfPage.setMediaBox(x, y, width, height)
SetMediaBox(page, x, y, width, height) ==
    [page EXCEPT !.mediaBox = <<x, y, x + width, y + height>>]

\* pdfPage.getSize(): the width and height of the MediaBox.
GetSize(page) ==
    [width |-> GetMediaBox(page).width, height |-> GetMediaBox(page).height]

\* pdfPage.setSize(width, height): the MediaBox resized at its own origin.
SetSize(page, width, height) ==
    SetMediaBox(page, GetMediaBox(page).x, GetMediaBox(page).y, width, height)

\* pdfPage.drawRectangle and pdfPage.drawText.  The horizontal placement
\* hangs on the metrics of the fetched font and is left out.
DrawRectangle(page, y) ==
    [page EXCEPT !.drawn = Append(@, [op |-> "rectangle", y |-> y,
                                       text |-> << >>, size |-> 0])]

DrawText(page, text, y, size) ==
    [page EXCEPT !.drawn = Append(@, [op |-> "text", y |-> y,
                                       text |-> text, size |-> size])]

\* AnnotatePage without the shift of the MediaBox: a height-only resize.
AnnotatePageHeightOnly(page, mapping) ==
    LET size == GetSize(page)
        p1 == SetSize(page, size.width, size.height + ExtraHeight)
        yPos == GetMediaBox(p1).y + TextInset
    IN  DrawText(DrawRectangle(p1, yPos - RectDrop),
                 ArtPrefix \o mapping.article, yPos, FontSize)

\* Lines 170 to 228: the body of "if (mapping)" after the count.
AnnotatePage(page, mapping) ==
    LET size == GetSize(page)
        textToDraw == ArtPrefix \o mapping.article
        p1 == SetSize(page, size.width, size.height + ExtraHeight)
        box == GetMediaBox(p1)
        p2 == SetMediaBox(p1, box.x, box.y - ExtraHeight,
                          box.width, box.height + ExtraHeight)
        newBottomY == box.y - ExtraHeight
        yPos == newBottomY + TextInset
        p3 == DrawRectangle(p2, yPos - RectDrop)
    IN  DrawText(p3, textToDraw, yPos, FontSize)

NotFound == [found |-> FALSE,
             record |-> [shippingNumber |-> << >>, article |-> << >>,
                         productName |-> << >>]]

\* Lookup that returns the last record with the number.
LookupLast(mappings, shippingNumber) ==
    LET hits == {k \in 1..Len(mappings) :
                    mappings[k].shippingNumber = shippingNumber}
    IN  IF hits = {} THEN NotFound
        ELSE [found |-> TRUE, record |-> mappings[Max(hits)]]

\* mappings.find(m => m.shippingNumber === shippingNumber)
Lookup(mappings, shippingNumber) ==
    LET hits == {k \in 1..Len(mappings) :
                    mappings[k].shippingNumber = shippingNumber}
    IN  IF hits = {} THEN NotFound
        ELSE [found |-> TRUE, record |-> mappings[Min(hits)]]

\* LabelNumber that takes the last match on the page.
LabelNumberLast(items) ==
    LET matches == ShippingMatches(Join(items), 0)
    IN  IF matches = << >> THEN << >> ELSE matches[Len(matches)].number

\* Lines 158 to 165: the shipping number of a labels page, << >> for none.
LabelNumber(items) == FirstShippingNumber(Join(items))

\* A check of the mappings that never finds them empty.
MappingsNeverEmpty(mappings) == FALSE

\* mappings.length === 0
MappingsEmpty(mappings) == Len(mappings) = 0

(***************************************************************************)
(* The component App: its state, and handleProcess as the steps between    *)
(* its awaits.                                                             *)
(***************************************************************************)
VARIABLES
    ordersFile,     \* useState: the chosen orders file, or NoFile
    labelsFile,     \* useState: the chosen labels file, or NoFile
    isProcessing,   \* useState
    error,          \* useState: a message, or Null
    success,        \* useState: a message, or Null
    pc,             \* where the running handleProcess is; "idle" when none runs
    runOrders,      \* the ordersFile the running handleProcess closed over
    runLabels,      \* the labelsFile the running handleProcess closed over
    mappings,       \* handleProcess: the result of parseOrdersPdf
    pdfDoc,         \* processLabelsPdf: the pdf-lib document, its pages
    pageIndex,      \* processLabelsPdf: i, the number of pages examined
    modifiedCount,  \* processLabelsPdf
    outputBytes,    \* what processLabelsPdf returned, << >> when nothing
    labelsLoaded,   \* whether this invocation loaded the labels document
    fontEmbedded,   \* whether this invocation fetched and embedded the font
    downloads,      \* the documents this invocation made the browser download
    outcomes        \* the outcome of every completed invocation, in order

appVars == <<ordersFile, labelsFile, isProcessing, error, success, pc,
             runOrders, runLabels, mappings, pdfDoc, pageIndex, modifiedCount,
             outputBytes, labelsLoaded, fontEmbedded, downloads, outcomes>>

vars == <<segCase, segRecords, segDone, ordersFile, labelsFile, isProcessing,
          error, success, pc, runOrders, runLabels, mappings, pdfDoc,
          pageIndex, modifiedCount, outputBytes, labelsLoaded, fontEmbedded,
          downloads, outcomes>>

\* How many times handleProcess is invoked in a behaviour.
MaxRuns == 2

runLocals == <<mappings, pdfDoc, pageIndex, modifiedCount, outputBytes,
               labelsLoaded, fontEmbedded, downloads>>

AppInit ==
    /\ ordersFile = NoFile
    /\ labelsFile = NoFile
    /\ isProcessing = FALSE
    /\ error = Null
    /\ success = Null
    /\ pc = "idle"
    /\ runOrders = NoFile
    /\ runLabels = NoFile
    /\ mappings = << >>
    /\ pdfDoc = << >>
    /\ pageIndex = 0
    /\ modifiedCount = 0
    /\ outputBytes = << >>
    /\ labelsLoaded = FALSE
    /\ fontEmbedded = FALSE
    /\ downloads = << >>
    /\ outcomes = << >>

\* onChange of the first file input (line 269).
SetOrdersFile ==
    /\ \E f \in (OrdersFiles \cup {NoFile}) \ {ordersFile} : ordersFile' = f
    /\ UNCHANGED <<labelsFile, isProcessing, error, success, pc, runOrders,
                   runLabels, outcomes>>
    /\ UNCHANGED runLocals

\* onChange of the second file input (line 294).
SetLabelsFile ==
    /\ \E f \in (LabelsFiles \cup {NoFile}) \ {labelsFile} : labelsFile' = f
    /\ UNCHANGED <<ordersFile, isProcessing, error, success, pc, runOrders,
                   runLabels, outcomes>>
    /\ UNCHANGED runLocals

\* The button's disabled attribute (line 323), negated.
ButtonEnabled ==
    ~(ordersFile = NoFile \/ labelsFile = NoFile \/ isProcessing)

\* BeginProcessing without setSuccess(null).
BeginProcessingKeepSuccess ==
    /\ isProcessing' = TRUE
    /\ error' = Null
    /\ UNCHANGED success

\* Lines 34 to 36.
BeginProcessing ==
    /\ isProcessing' = TRUE
    /\ error' = Null
    /\ success' = Null

\* handleProcess up to its first await (lines 29 to 40), on a click of the
\* enabled button.  The locals of the invocation start afresh.
HandleProcess ==
    /\ ButtonEnabled
    /\ pc = "idle"
    /\ Len(outcomes) < MaxRuns
    /\ IF ordersFile = NoFile \/ labelsFile = NoFile
       THEN /\ error' = MsgMissingInput
            /\ outcomes' = Append(outcomes, "fail")
            /\ UNCHANGED <<isProcessing, success, pc, runOrders, runLabels>>
       ELSE /\ BeginProcessing
            /\ pc' = "parseOrders"
            /\ runOrders' = ordersFile
            /\ runLabels' = labelsFile
            /\ UNCHANGED outcomes
    /\ mappings' = << >>
    /\ pdfDoc' = << >>
    /\ pageIndex' = 0
    /\ modifiedCount' = 0
    /\ outputBytes' = << >>
    /\ labelsLoaded' = FALSE
    /\ fontEmbedded' = FALSE
    /\ downloads' = << >>
    /\ UNCHANGED <<ordersFile, labelsFile>>

\* The catch and finally blocks (lines 65 to 70) for an error with the
\* message msg.
Fail(msg) ==
    /\ error' = (IF msg = "" THEN MsgFallback ELSE msg)
    /\ isProcessing' = FALSE
    /\ pc' = "idle"
    /\ outcomes' = Append(outcomes, "fail")
    /\ UNCHANGED success

\* Lines 40 to 45: parseOrdersPdf, then the check of its result.
ParseOrders ==
    /\ pc = "parseOrders"
    /\ LET doc == OrdersContent(runOrders)
       IN  IF ~doc.loadable
           THEN Fail(MsgMalformed) /\ UNCHANGED mappings
           ELSE /\ mappings' = ParseOrdersPdf(doc.pages)
                /\ IF MappingsEmpty(mappings')
                   THEN Fail(MsgNoRecords)
                   ELSE /\ pc' = "loadLabels"
                        /\ UNCHANGED <<error, isProcessing, success, outcomes>>
    /\ UNCHANGED <<ordersFile, labelsFile, runOrders, runLabels, pdfDoc,
                   pageIndex, modifiedCount, outputBytes, labelsLoaded,
                   fontEmbedded, downloads>>

\* Lines 48 to 51 and 142 to 146: the labels file read and loaded, by
\* pdf.js and by pdf-lib.
LoadLabels ==
    /\ pc = "loadLabels"
    /\ LET doc == LabelsContent(runLabels)
       IN  IF ~doc.loadable
           THEN Fail(MsgMalformed) /\ UNCHANGED <<pdfDoc, labelsLoaded>>
           ELSE /\ pdfDoc' = [i \in 1..Len(doc.pages) |-> LoadPage(doc.pages[i])]
                /\ labelsLoaded' = TRUE
                /\ pc' = "embedFont"
                /\ UNCHANGED <<error, isProcessing, success, outcomes>>
    /\ UNCHANGED <<ordersFile, labelsFile, runOrders, runLabels, mappings,
                   pageIndex, modifiedCount, outputBytes, fontEmbedded,
                   downloads>>

\* Lines 149 to 153: the font fetched and embedded, or not.
EmbedFont ==
    /\ pc = "embedFont"
    /\ \E fetched \in BOOLEAN :
          IF fetched
          THEN /\ fontEmbedded' = TRUE
               /\ pc' = "scan"
               /\ UNCHANGED <<error, isProcessing, success, outcomes>>
          ELSE Fail(MsgFontUnavailable) /\ UNCHANGED fontEmbedded
    /\ modifiedCount' = 0
    /\ pageIndex' = 0
    /\ UNCHANGED <<ordersFile, labelsFile, runOrders, runLabels, mappings,
                   pdfDoc, outputBytes, labelsLoaded, downloads>>

\* pdfjsDoc.numPages
NumPages == Len(LabelsContent(runLabels).pages)

\* One iteration of the loop over the labels pages (lines 155 to 231).
ScanPage ==
    /\ pc = "scan"
    /\ pageIndex < NumPages
    /\ LET number == LabelNumber(LabelsContent(runLabels).pages[pageIndex + 1].items)
           hit == IF number = << >> THEN NotFound ELSE Lookup(mappings, number)
       IN  IF hit.found
           THEN /\ modifiedCount' = modifiedCount + 1
                /\ pdfDoc' = [pdfDoc EXCEPT
                                ![pageIndex + 1] = AnnotatePage(@, hit.record)]
           ELSE UNCHANGED <<modifiedCount, pdfDoc>>
    /\ pageIndex' = pageIndex + 1
    /\ UNCHANGED <<ordersFile, labelsFile, isProcessing, error, success, pc,
                   runOrders, runLabels, mappings, outputBytes, labelsLoaded,
                   fontEmbedded, downloads, outcomes>>

\* A check of the count that never finds it zero.
NothingModifiedNever(count) == FALSE

\* modifiedCount === 0
NothingModified(count) == count = 0

\* Lines 233 to 237: after the loop, the throw or the saved document.
FinishLabels ==
    /\ pc = "scan"
    /\ pageIndex = NumPages
    /\ IF NothingModified(modifiedCount)
       THEN Fail(MsgNoMatches) /\ UNCHANGED outputBytes
       ELSE /\ outputBytes' = pdfDoc
            /\ pc' = "download"
            /\ UNCHANGED <<error, isProcessing, success, outcomes>>
    /\ UNCHANGED <<ordersFile, labelsFile, runOrders, runLabels, mappings,
                   pdfDoc, pageIndex, modifiedCount, labelsLoaded,
                   fontEmbedded, downloads>>

\* Lines 54 to 64 and 69: the download, setSuccess, and the finally block.
Download ==
    /\ pc = "download"
    /\ downloads' = Append(downloads, outputBytes)
    /\ success' = MsgSuccess
    /\ isProcessing' = FALSE
    /\ pc' = "idle"
    /\ outcomes' = Append(outcomes, "ok")
    /\ UNCHANGED <<ordersFile, labelsFile, error, runOrders, runLabels,
                   mappings, pdfDoc, pageIndex, modifiedCount, outputBytes,
                   labelsLoaded, fontEmbedded>>

\* The segmenter's variables while the component runs.
NoCase == [kind |-> "none", ship |-> << >>, rows |-> <<NoRow, NoRow>>, block |-> << >>]

SegIdle ==
    /\ segCase = NoCase
    /\ segRecords = << >>
    /\ segDone = TRUE

Init == AppInit /\ SegIdle

Next ==
    \/ SetOrdersFile /\ UNCHANGED segVars
    \/ SetLabelsFile /\ UNCHANGED segVars
    \/ HandleProcess /\ UNCHANGED segVars
    \/ ParseOrders /\ UNCHANGED segVars
    \/ LoadLabels /\ UNCHANGED segVars
    \/ EmbedFont /\ UNCHANGED segVars
    \/ ScanPage /\ UNCHANGED segVars
    \/ FinishLabels /\ UNCHANGED segVars
    \/ Download /\ UNCHANGED segVars

\* The component, driven by its user.
Spec == Init /\ [][Next]_vars

SegmenterInit == SegInit /\ AppInit

SegmenterNext == Segment /\ UNCHANGED appVars

\* The segmenter applied to one page.
SpecSegmenter == SegmenterInit /\ [][SegmenterNext]_vars

(***************************************************************************)
(* Properties of the annotator and of handleProcess, under Spec.           *)
(***************************************************************************)
\* The labels pages the running (or last) invocation reads.
InputPages == LabelsContent(runLabels).pages

\* The pages of the pdf-lib document that carry an annotation.
Annotated == {i \in 1..Len(pdfDoc) : pdfDoc[i].drawn # << >>}

\* The height, and the lower edge, of a MediaBox array.
BoxHeight(box) == box[4] - box[2]
BoxBottom(box) == box[2]

\* An invocation of handleProcess has completed and none is running.
Completed == pc = "idle" /\ outcomes # << >>

\* The first shipment number in scan order on a page, by the looping scan.
FirstOnPage(items) ==
    LET ms == ShippingMatches(Join(items), 0)
    IN  IF ms = << >> THEN << >> ELSE ms[1].number

IsKey(number) == \E k \in 1..Len(mappings) : mappings[k].shippingNumber = number

\* Page i of the labels document is a hit: its first number is a key.
Hit(i) == FirstOnPage(InputPages[i].items) # << >> /\ IsKey(FirstOnPage(InputPages[i].items))

\* C1: every annotated page is extraHeight (25) higher than it was: the
\* height of its MediaBox after setSize and setMediaBox is the old height
\* plus 25.
C1_HeightGrowsByExtraHeight ==
    \A i \in Annotated :
        BoxHeight(pdfDoc[i].mediaBox) = BoxHeight(InputPages[i].mediaBox) + ExtraHeight

\* C2: on every annotated page the bottom edge has moved down by 25, the
\* left edge and the width are as they were, the text sits 5 above the new
\* bottom and its rectangle 3 above it, both below the old bottom edge.
C2_BottomEdgeShifted ==
    \A i \in Annotated :
        LET old == InputPages[i].mediaBox
            new == pdfDoc[i].mediaBox
            texts == {d \in 1..Len(pdfDoc[i].drawn) : pdfDoc[i].drawn[d].op = "text"}
            rects == {d \in 1..Len(pdfDoc[i].drawn) : pdfDoc[i].drawn[d].op = "rectangle"}
        IN  /\ BoxBottom(new) = BoxBottom(old) - 25
            /\ new[1] = old[1]
            /\ new[3] - new[1] = old[3] - old[1]
            /\ texts # {} /\ rects # {}
            /\ \A d \in texts : /\ pdfDoc[i].drawn[d].y = BoxBottom(new) + 5
                                /\ pdfDoc[i].drawn[d].y < BoxBottom(old)
            /\ \A d \in rects : /\ pdfDoc[i].drawn[d].y = BoxBottom(new) + 3
                                /\ pdfDoc[i].drawn[d].y < BoxBottom(old)

\* A page with a MediaBox whose origin is not (0, 0) has been annotated.
C2_Witness ==
    \E i \in Annotated : InputPages[i].mediaBox[1] # 0 /\ InputPages[i].mediaBox[2] # 0

\* The shipment numbers of an orders document in scan order: page order,
\* then match order within the page.
RECURSIVE NumbersInScanOrder(_)
NumbersInScanOrder(pages) ==
    IF pages = << >> THEN << >>
    ELSE LET ms == ShippingMatches(Join(Head(pages)), 0)
         IN  [j \in 1..Len(ms) |-> ms[j].number] \o NumbersInScanOrder(Tail(pages))

\* C3: the mapping list holds one record per shipment number found, in scan
\* order, duplicates included, and every annotated page shows the article of
\* the first record in that order that bears the page's shipment number.
C3_FirstWins ==
    /\ mappings # << >> =>
          [k \in 1..Len(mappings) |-> mappings[k].shippingNumber]
              = NumbersInScanOrder(OrdersContent(runOrders).pages)
    /\ \A i \in Annotated :
          \A k \in 1..Len(mappings) :
              ( /\ mappings[k].shippingNumber = FirstOnPage(InputPages[i].items)
                /\ \A j \in 1..(k - 1) :
                      mappings[j].shippingNumber # mappings[k].shippingNumber )
              => \A d \in 1..Len(pdfDoc[i].drawn) :
                    pdfDoc[i].drawn[d].op = "text"
                        => pdfDoc[i].drawn[d].text = ArtPrefix \o mappings[k].article

\* An annotated page whose number has a later record with another article,
\* on the same orders page and on a later one.
C3_Witness ==
    \E i \in Annotated :
        /\ FirstOnPage(InputPages[i].items) = S1
        /\ \E d \in 1..Len(pdfDoc[i].drawn) :
              pdfDoc[i].drawn[d].text = ArtPrefix \o Chars("F/034")
        /\ \E j \in 1..Len(mappings) :
              mappings[j].shippingNumber = S1 /\ mappings[j].article = Chars("A-1")
        /\ \E j \in 1..Len(mappings) :
              mappings[j].shippingNumber = S1 /\ mappings[j].article = Chars("B-2")

\* The orders document of the invocation loads and none of its pages holds
\* text that matches the shipment-number pattern.
OrdersWithoutNumbers ==
    /\ runOrders # NoFile
    /\ OrdersContent(runOrders).loadable
    /\ \A p \in 1..Len(OrdersContent(runOrders).pages) :
          LET t == Join(OrdersContent(runOrders).pages[p])
          IN  \A i \in 1..Len(t) : ShippingMatchLen(t, i) = 0

\* C4: when no page of the orders document matches the shipment-number
\* pattern the invocation ends with NoRecordsExtracted, and at no point of
\* it is the labels document loaded, the font fetched, a labels page
\* examined or changed, or a download made.
C4_NoRecordsStopsBeforeLabels ==
    OrdersWithoutNumbers =>
        /\ pc \in {"parseOrders", "idle"}
        /\ ~labelsLoaded
        /\ ~fontEmbedded
        /\ pdfDoc = << >>
        /\ pageIndex = 0
        /\ outputBytes = << >>
        /\ downloads = << >>
        /\ pc = "idle" =>
              /\ error = MsgNoRecords
              /\ success = Null
              /\ outcomes[Len(outcomes)] = "fail"

C4_Witness ==
    OrdersWithoutNumbers /\ Completed /\ error = MsgNoRecords /\ labelsFile # NoFile

\* No page of the labels document has a first shipment number that is a key
\* of the mapping table.
NoPageHits == \A i \in 1..Len(InputPages) : ~Hit(i)

\* processLabelsPdf was called with a non-empty table and has ended.
LabelsProcessed == Completed /\ mappings # << >>

\* C5 as stated: with a non-empty mapping table (and a labels document that
\* has pages), processLabelsPdf fails with NoMatchesFound if and only if no
\* page has a first shipment number in the table, and then returns no bytes
\* and triggers no download.
C5_NoMatchesIffNoHit ==
    (LabelsProcessed /\ LabelsContent(runLabels).loadable) =>
        /\ (error = MsgNoMatches) <=> NoPageHits
        /\ error = MsgNoMatches => outputBytes = << >> /\ downloads = << >>

\* C5, amended: with a non-empty mapping table, a labels document that loads
\* and a font that is fetched and embedded, processLabelsPdf fails with
\* NoMatchesFound if and only if no page has a first shipment number in the
\* table; it fails so only after every page was scanned, returns no bytes
\* and triggers no download.
C5_NoMatchesIffNoHitOnceScanning ==
    /\ (LabelsProcessed /\ labelsLoaded /\ fontEmbedded) =>
          ((error = MsgNoMatches) <=> NoPageHits)
    /\ (Completed /\ error = MsgNoMatches) =>
          /\ mappings # << >> /\ labelsLoaded /\ fontEmbedded
          /\ pageIndex = Len(InputPages) /\ pageIndex > 0
          /\ outputBytes = << >>
          /\ downloads = << >>
          /\ \A i \in 1..Len(pdfDoc) : pdfDoc[i] = LoadPage(InputPages[i])

\* A run that scanned a page bearing a number and failed with NoMatchesFound.
C5_Witness ==
    /\ Completed /\ error = MsgNoMatches /\ pageIndex > 0
    /\ \E i \in 1..Len(InputPages) : FirstOnPage(InputPages[i].items) # << >>

C10_ExactlyHitPagesAnnotated ==
    outputBytes # << >> =>
        /\ Len(outputBytes) = Len(InputPages)
        /\ modifiedCount = Cardinality({i \in 1..Len(InputPages) : Hit(i)})
        /\ \A i \in 1..Len(InputPages) :
              /\ outputBytes[i].items = InputPages[i].items
              /\ Hit(i) =>
                    /\ Len(outputBytes[i].drawn) = 2
                    /\ outputBytes[i].drawn[1].op = "rectangle"
                    /\ outputBytes[i].drawn[2].op = "text"
                    /\ BoxBottom(outputBytes[i].mediaBox)
                          = BoxBottom(InputPages[i].mediaBox) - ExtraHeight
              /\ ~Hit(i) =>
                    /\ outputBytes[i].drawn = << >>
                    /\ outputBytes[i].mediaBox = InputPages[i].mediaBox

\* A returned document with a page left alone although a later number on it
\* is a key, a page without any number, and a page annotated for a record
\* with an empty article.
C10_Witness ==
    /\ outputBytes # << >>
    /\ \E i \in 1..Len(InputPages) :
          LET ms == ShippingMatches(Join(InputPages[i].items), 0)
          IN  ~Hit(i) /\ Len(ms) > 1 /\ IsKey(ms[2].number)
    /\ \E i \in 1..Len(InputPages) : FirstOnPage(InputPages[i].items) = << >>
    /\ \E i \in 1..Len(InputPages) :
          Hit(i) /\ outputBytes[i].drawn[2].text = ArtPrefix

(***************************************************************************)
(* Properties of the segmenter, under SpecSegmenter.                       *)
(***************************************************************************)
\* needle occurs in hay.
Occurs(needle, hay) ==
    \E i \in 1..(Len(hay) - Len(needle) + 1) :
        SubSeq(hay, i, i + Len(needle) - 1) = needle

\* C7: the page text s + " ProductName F/034 1 1785", s any shipment number,
\* yields exactly one record: s, the article "F/034" and the product name
\* "ProductName".
C7_SingleRow ==
    (segDone /\ segCase.kind = "single") =>
        segRecords = <<[shippingNumber |-> segCase.ship,
                        article |-> Chars("F/034"),
                        productName |-> Chars("ProductName")]>>

\* The segmenter has run on the row of a longest shipment number: twelve
\* digits, four, and two.
C7_Witness ==
    /\ segDone /\ segCase.kind = "single"
    /\ Len(segCase.ship) = LeadMax + MidLen + TailMax + 2
    /\ Len(segRecords) = 1

\* What of the other row would be foreign to the record of row i: the other
\* row's shipment number or article, unless row i's own text holds it too.
ForeignTo(c, i) ==
    {x \in {c.rows[3 - i].ship, c.rows[3 - i].article} : ~Occurs(x, RowText(c.rows[i]))}

\* C8: two well-formed rows on one page yield exactly two records in row
\* order; record i has row i's shipment number and article, and neither its
\* article nor its product name holds the other row's shipment number or
\* article.
C8_TwoRowsTwoRecords ==
    (segDone /\ segCase.kind = "pair") =>
        /\ Len(segRecords) = 2
        /\ \A i \in 1..2 :
              /\ segRecords[i].shippingNumber = segCase.rows[i].ship
              /\ segRecords[i].article = segCase.rows[i].article
              /\ \A x \in ForeignTo(segCase, i) :
                    /\ ~Occurs(x, segRecords[i].article)
                    /\ ~Occurs(x, segRecords[i].productName)

\* The words of a text, in order.
RECURSIVE Words(_)
Words(t) ==
    LET a == RunEnd(t, 1, Whitespace)
    IN  IF a > Len(t) THEN << >>
        ELSE LET b == RunEndNot(t, a, Whitespace)
             IN  <<SubSeq(t, a, b - 1)>> \o Words(SubSeq(t, b, Len(t)))

\* The row also reads as name, article, quantity, label number and the
\* index of a next row: its article is all digits, its quantity has four
\* digits and its product name has more than one word.
ReadsWithRowIndex(r) ==
    /\ \A k \in 1..Len(r.article) : r.article[k] \in Digits
    /\ Len(r.qty) = LabelDigits
    /\ Len(Words(r.name)) > 1

\* C8, amended: two well-formed rows on one page yield exactly two records
\* in row order; record i has row i's shipment number, and row i's article
\* unless the row also reads as one that ends in the index of a next row (a
\* digits-only article, a four-digit quantity, a product name of more than
\* one word), when its article is the last word of the product name;
\* neither its article nor its product name holds the other row's shipment
\* number or article.
C8_TwoRowsUnlessRowIndexReading ==
    (segDone /\ segCase.kind = "pair") =>
        /\ Len(segRecords) = 2
        /\ \A i \in 1..2 :
              /\ segRecords[i].shippingNumber = segCase.rows[i].ship
              /\ segRecords[i].article =
                    IF ReadsWithRowIndex(segCase.rows[i])
                    THEN Words(segCase.rows[i].name)[Len(Words(segCase.rows[i].name))]
                    ELSE segCase.rows[i].article
              /\ \A x \in ForeignTo(segCase, i) :
                    /\ ~Occurs(x, segRecords[i].article)
                    /\ ~Occurs(x, segRecords[i].productName)

\* The segmenter has run on two rows with different shipment numbers and
\* articles, the first with a digits-only article and a two-word name.
C8_Witness ==
    /\ segDone /\ segCase.kind = "pair"
    /\ segCase.rows[1] = [ship |-> Chars("0149711785-0110-1"), name |-> Chars("Blue Bolt"),
                          article |-> Chars("12345"), qty |-> Chars("1"),
                          label |-> Chars("1785")]
    /\ segCase.rows[2] = [ship |-> Chars("77700000-0007-12"), name |-> Chars("Bolt 5"),
                          article |-> Chars("F/034"), qty |-> Chars("1000"),
                          label |-> Chars("1785")]
    /\ Len(segRecords) = 2
    /\ segRecords[1].article = Chars("12345")
    /\ segRecords[2].article = Chars("F/034")

\* [A-Za-z0-9_], the class \w
WordChars == Alnum \cup {"_"}

\* t[i..j] is a token of the class C: C+, a separator, C+.
IsToken(t, i, j, C) ==
    \E sep \in (i + 1)..(j - 1) :
        /\ t[sep] \in Separators
        /\ \A k \in i..(sep - 1) : t[k] \in C
        /\ \A k \in (sep + 1)..j : t[k] \in C

HasToken(t, C) == \E i \in 1..Len(t) : \E j \in i..Len(t) : IsToken(t, i, j, C)

\* Where the first token of the class C starts, and where it ends when it
\* is taken as long as it goes.
FirstTokenStart(t, C) == Min({i \in 1..Len(t) : \E j \in i..Len(t) : IsToken(t, i, j, C)})
FirstTokenEnd(t, C) == Max({j \in 1..Len(t) : IsToken(t, FirstTokenStart(t, C), j, C)})

\* The block ends in a quantity and a four-digit label number (and perhaps
\* the index of the next row).
HasQuantityLabelSuffix(t) ==
    \E a \in 1..Len(t) :
        /\ t[a] \in Whitespace
        /\ LET d == RunEnd(t, a, Whitespace)
               e == RunEnd(t, d, Digits)
               f == RunEnd(t, e, Whitespace)
               rest == SubSeq(t, f + LabelDigits, Len(t))
           IN  /\ e > d
               /\ f > e
               /\ DigitsAt(t, f, LabelDigits)
               /\ \E n \in 0..Len(rest) :
                     /\ \A k \in 1..n : rest[k] \in Whitespace
                     /\ \A k \in (n + 1)..Len(rest) : rest[k] \in Digits \cup Whitespace
                     /\ \A k \in (n + 1)..Len(rest) :
                           rest[k] \in Whitespace =>
                               \A m \in k..Len(rest) : rest[m] \in Whitespace

\* The record of a block is as the fallback grammar for the class C has it:
\* the article is the first token, the name the text before it, cleaned.
FallbackRecordFor(C) ==
    /\ Len(segRecords) = 1
    /\ segRecords[1].shippingNumber = segCase.ship
    /\ segRecords[1].article # << >>
    /\ segRecords[1].article =
          SubSeq(segCase.block, FirstTokenStart(segCase.block, C),
                 FirstTokenEnd(segCase.block, C))
    /\ segRecords[1].productName =
          CleanProductName(SubSeq(segCase.block, 1, FirstTokenStart(segCase.block, C) - 1))

\* C9 as stated: a block without a quantity/label-number suffix that holds
\* a token of the shape \w+[-/]\w+ yields a record whose article is the
\* first such token and whose product name is the text before it.
C9_FallbackWordToken ==
    ( /\ segDone /\ segCase.kind = "block"
      /\ ~HasQuantityLabelSuffix(segCase.block)
      /\ HasToken(segCase.block, WordChars) )
    => FallbackRecordFor(WordChars)

\* C9, amended: a block without a quantity/label-number suffix that holds a
\* token of the shape [A-Za-z0-9]+[-/][A-Za-z0-9]+ (letters and digits, no
\* underscore) yields a record whose article is the first such token and
\* whose product name is the text before it, trimmed and with a leading run
\* of digits and white space removed.
C9_FallbackAlnumToken ==
    ( /\ segDone /\ segCase.kind = "block"
      /\ ~HasQuantityLabelSuffix(segCase.block)
      /\ HasToken(segCase.block, Alnum) )
    => FallbackRecordFor(Alnum)

\* The fallback grammar has parsed a block with a leading index, a name and
\* an article, and one that holds two tokens.
C9_Witness ==
    /\ segDone /\ segCase.kind = "block"
    /\ segCase.block = Chars("12 Bolt F/034")
    /\ ~HasQuantityLabelSuffix(segCase.block)
    /\ segRecords[1].article = Chars("F/034")
    /\ segRecords[1].productName = Chars("Bolt")

====
